---- MODULE Spec2Model ----
(***************************************************************************)
(* A model of the quiz-bowl guesser training pipeline:                     *)
(*   dataset.py    Question.runs, QantaDatabase (fold partition)           *)
(*   preprocess.py preprocess_dataset, tokenize_question                   *)
(*   train_DAN.py  make_array, batchify, DANGuesser.train/guess/save/load  *)
(* Each part of the program has its own specification (SpecFolds,          *)
(* SpecRuns, ...); the variables of the other parts stay at their idle     *)
(* values.                                                                 *)
(***************************************************************************)
EXTENDS Integers, Sequences, FiniteSets, TLC

VARIABLES
    \* ---- dataset.py: QantaDatabase
    raw_questions,          \* self.dataset['questions'], the loaded collection
    category,               \* the category argument of __init__ (None or a set)
    db,                     \* the constructed database (None before __init__)
    \* ---- dataset.py: Question.runs
    text,                   \* Question.text, a sequence of characters
    char_skip,              \* the argument of runs
    runs_result,            \* the pair runs returned (None before the call)
    \* ---- preprocess.py: preprocess_dataset
    data,                   \* zip(data[0], data[1]): [q |-> sentences, ans |-> label]
    p_args,                 \* the keyword arguments of the call
    p_pc,                   \* where the call is: "call", "train", "test", "return",
                            \* "returned", or "raised"
    class_to_i, i_to_class, \* the label maps
    train, test,            \* the two partitions, lists of [q, ans]
    x_train, y_train,       \* the training examples and their labels
    x_test, y_test,         \* the test examples and their labels
    vocab,                  \* the vocabulary set
    p_i,                    \* how many questions the two loops have processed
    \* ---- train_DAN.py: the DANGuesser facade at inference
    word_to_i,              \* self.word_to_i
    self_i_to_class,        \* self.i_to_class
    model,                  \* self.model: the classifier's parameters
    argsort_ties,           \* the order numpy's unstable sort leaves equal keys in
    questions,              \* the argument of guess: a list of strings
    max_n_guesses,          \* the argument of guess: None or an int
    q_batch,                \* what batchify returned inside guess
    guesses,                \* what guess returned (None before the call)
    \* ---- train_DAN.py: DANGuesser.train, save and load
    t_pc,                   \* where train is: "train_pass", "val_pass", "instruct",
                            \* "branch", "done"
    epoch,                  \* the local epoch of train
    model_training,         \* self.model.training: TRUE after train(), FALSE after eval()
    metrics,                \* the results of the two run_epoch calls of this epoch
    manager,                \* the TrainingManager and the state of its callbacks
    stop_training, reasons, \* what manager.instruct returned
    scheduler_steps,        \* the metrics self.scheduler.step was called with
    model_file,             \* the contents of the file self.model_file (None: no file)
    directory,              \* the contents of dan.pt and dan.pkl (None: not saved)
    loaded,                 \* the facade DANGuesser.load returned (None: not loaded)
    loaded_guesses          \* what guess returned on the loaded facade

foldVars == <<raw_questions, category, db>>
runVars == <<text, char_skip, runs_result>>
preVars == <<data, p_args, p_pc, class_to_i, i_to_class, train, test,
             x_train, y_train, x_test, y_test, vocab, p_i>>
guessVars == <<word_to_i, self_i_to_class, model, argsort_ties, questions,
               max_n_guesses, q_batch, guesses>>
trainVars == <<t_pc, epoch, model_training, metrics, manager, stop_training, reasons,
               scheduler_steps, model_file, directory, loaded, loaded_guesses>>
vars == <<foldVars, runVars, preVars, guessVars, trainVars>>
\* what an action of one part of the program leaves alone
exceptFolds == <<runVars, preVars, guessVars, trainVars>>
exceptRuns == <<foldVars, preVars, guessVars, trainVars>>
exceptPre == <<foldVars, runVars, guessVars, trainVars>>
exceptGuess == <<foldVars, runVars, preVars, trainVars>>
exceptTrain == <<foldVars, runVars, preVars>>

\* Python's None, for a str-valued field
None == "None"
\* an Optional value of another type: <<>> is None, <<x>> holds x
Nothing == <<>>
Some(x) == <<x>>

(***************************************************************************)
(* Idle values: the state of a part of the program that a specification    *)
(* does not exercise.                                                      *)
(***************************************************************************)
IdleFolds == raw_questions = <<>> /\ category = Nothing /\ db = Nothing
IdleRuns == text = <<>> /\ char_skip = 1 /\ runs_result = Nothing
IdlePre ==
    /\ data = <<>> /\ p_args = Nothing /\ p_pc = "idle"
    /\ class_to_i = <<>> /\ i_to_class = <<>>
    /\ train = <<>> /\ test = <<>>
    /\ x_train = <<>> /\ y_train = <<>> /\ x_test = <<>> /\ y_test = <<>>
    /\ vocab = {} /\ p_i = 0
IdleGuess ==
    /\ word_to_i = <<>> /\ self_i_to_class = <<>> /\ model = <<>>
    /\ argsort_ties = <<>> /\ questions = <<>> /\ max_n_guesses = Nothing
    /\ q_batch = Nothing /\ guesses = Nothing
IdleTrain ==
    /\ t_pc = "idle" /\ epoch = 0 /\ model_training = FALSE /\ metrics = Nothing
    /\ manager = Nothing /\ stop_training = FALSE /\ reasons = <<>>
    /\ scheduler_steps = <<>> /\ model_file = Nothing /\ directory = Nothing
    /\ loaded = Nothing /\ loaded_guesses = Nothing

(***************************************************************************)
(* Bounds of the model.                                                    *)
(***************************************************************************)
MaxQuestions == 2
MaxTextLen == 4
MaxSkip == 3
MaxData == 2
MaxBatch == 2
MaxGuesses == 4
\* the model's values for MaxEpochStopping(100) and EarlyStopping(patience=10)
MaxEpochs == 4
Patience == 2

(***************************************************************************)
(* Helpers for Python's built-ins.                                         *)
(***************************************************************************)
\* { s[i] : i \in 1..Len(s) }, the elements of a list
Elems(s) == { s[i] : i \in 1..Len(s) }

\* Python's range(start, stop, step) for step > 0, as a list
RECURSIVE PyRange(_, _, _)
PyRange(start, stop, step) ==
    IF start >= stop THEN <<>>
    ELSE <<start>> \o PyRange(start + step, stop, step)

\* Python's s[:i] for i >= 0: the slice is clipped to the length of s
PySliceTo(s, i) == SubSeq(s, 1, IF i < Len(s) THEN i ELSE Len(s))

(***************************************************************************)
(* dataset.py: the fold labels.                                            *)
(***************************************************************************)
GUESSER_TRAIN_FOLD == "guesstrain"
BUZZER_TRAIN_FOLD == "buzztrain"
TRAIN_FOLDS == {GUESSER_TRAIN_FOLD, BUZZER_TRAIN_FOLD}
GUESSER_DEV_FOLD == "guessdev"
BUZZER_DEV_FOLD == "buzzdev"
DEV_FOLDS == {GUESSER_DEV_FOLD, BUZZER_DEV_FOLD}
GUESSER_TEST_FOLD == "guesstest"
BUZZER_TEST_FOLD == "buzztest"

\* Question.fold is a str: the six labels the code knows and one it does not
FoldLabels == TRAIN_FOLDS \cup DEV_FOLDS \cup {GUESSER_TEST_FOLD, BUZZER_TEST_FOLD}
                \cup {"train"}
\* Question.page is Optional[str]
Pages == {None, "Page_A"}
\* Question.category is Optional[str]
Categories == {"History", "Science"}

\* a Question, reduced to the fields QantaDatabase reads
Question == [qanta_id : 1..MaxQuestions, page : Pages, fold : FoldLabels,
             category : Categories]

(***************************************************************************)
(* dataset.py: QantaDatabase.__init__                                      *)
(***************************************************************************)
\* a filter that keeps the questions without a page
MappedNoCategory_PageIgnored(all_questions) == all_questions

MappedNoCategory(all_questions) ==
    LET Mapped(q) == q.page # None IN SelectSeq(all_questions, Mapped)

MappedInCategory(all_questions, cat) ==
    LET Mapped(q) == q.page # None /\ q.category \in cat
    IN SelectSeq(all_questions, Mapped)

\* [q for q in questions if q.fold == fold]
FoldList(question_list, fold) ==
    LET InFold(q) == q.fold = fold IN SelectSeq(question_list, InFold)

\* [q for q in questions if q.fold in folds]
FoldsList(question_list, folds) ==
    LET InFolds(q) == q.fold \in folds IN SelectSeq(question_list, InFolds)

QantaDatabase(question_list, cat) ==
    LET all_questions == question_list
        mapped_questions == IF cat # Nothing
                            THEN MappedInCategory(all_questions, cat[1])
                            ELSE MappedNoCategory(all_questions)
        train_questions == FoldsList(mapped_questions, TRAIN_FOLDS)
        dev_questions == FoldsList(mapped_questions, DEV_FOLDS)
    IN [all_questions |-> all_questions,
        mapped_questions |-> mapped_questions,
        train_questions |-> train_questions,
        guess_train_questions |-> FoldList(train_questions, GUESSER_TRAIN_FOLD),
        buzz_train_questions |-> FoldList(train_questions, BUZZER_TRAIN_FOLD),
        dev_questions |-> dev_questions,
        guess_dev_questions |-> FoldList(dev_questions, GUESSER_DEV_FOLD),
        buzz_dev_questions |-> FoldList(dev_questions, BUZZER_DEV_FOLD),
        buzz_test_questions |-> FoldList(mapped_questions, BUZZER_TEST_FOLD),
        guess_test_questions |-> FoldList(mapped_questions, GUESSER_TEST_FOLD)]

\* QantaDatabase.by_fold
by_fold(d) ==
    [f \in FoldLabels \ {"train"} |->
        CASE f = GUESSER_TRAIN_FOLD -> d.guess_train_questions
          [] f = GUESSER_DEV_FOLD -> d.guess_dev_questions
          [] f = BUZZER_TRAIN_FOLD -> d.buzz_train_questions
          [] f = BUZZER_DEV_FOLD -> d.buzz_dev_questions
          [] f = BUZZER_TEST_FOLD -> d.buzz_test_questions
          [] f = GUESSER_TEST_FOLD -> d.guess_test_questions]

(***************************************************************************)
(* dataset.py: Question.runs                                               *)
(***************************************************************************)
Chars == {"a", "b"}

\* a range that stops short of the end of the text
char_indices_NoFinal(txt, skip) == PyRange(skip, Len(txt), skip)

\* list(range(char_skip, len(self.text) + char_skip, char_skip))
char_indices(txt, skip) == PyRange(skip, Len(txt) + skip, skip)

\* return [self.text[:i] for i in char_indices], char_indices
runs(txt, skip) ==
    LET ci == char_indices(txt, skip)
    IN <<[k \in 1..Len(ci) |-> PySliceTo(txt, ci[k])], ci>>

(***************************************************************************)
(* SpecFolds: a question collection is loaded, then the database is        *)
(* constructed over it.                                                    *)
(***************************************************************************)
InitFolds ==
    /\ raw_questions = <<>>
    /\ category \in {Nothing, Some({"History"})}
    /\ db = Nothing
    /\ IdleRuns /\ IdlePre /\ IdleGuess /\ IdleTrain

\* one more question object in the JSON document that __init__ will read
LoadQuestion ==
    /\ db = Nothing
    /\ Len(raw_questions) < MaxQuestions
    /\ \E q \in Question :
          /\ q.qanta_id = Len(raw_questions) + 1
          /\ raw_questions' = Append(raw_questions, q)
    /\ UNCHANGED <<category, db, exceptFolds>>

\* QantaDatabase(dataset_path, category)
Construct ==
    /\ db = Nothing
    /\ db' = Some(QantaDatabase(raw_questions, category))
    /\ UNCHANGED <<raw_questions, category, exceptFolds>>

NextFolds == LoadQuestion \/ Construct

SpecFolds == InitFolds /\ [][NextFolds]_vars

(***************************************************************************)
(* SpecRuns: runs is called on a question text with a skip size > 0.       *)
(***************************************************************************)
RECURSIVE SeqsUpTo(_, _)
SeqsUpTo(S, n) ==
    IF n = 0 THEN {<<>>}
    ELSE LET shorter == SeqsUpTo(S, n - 1)
         IN shorter \cup { Append(s, c) : s \in { t \in shorter : Len(t) = n - 1 }, c \in S }

InitRuns ==
    /\ text \in SeqsUpTo(Chars, MaxTextLen)
    /\ char_skip \in 1..MaxSkip
    /\ runs_result = Nothing
    /\ IdleFolds /\ IdlePre /\ IdleGuess /\ IdleTrain

\* question.runs(char_skip)
Runs ==
    /\ runs_result = Nothing
    /\ runs_result' = Some(runs(text, char_skip))
    /\ UNCHANGED <<text, char_skip, exceptRuns>>

NextRuns == Runs

SpecRuns == InitRuns /\ [][NextRuns]_vars

(***************************************************************************)
(* Claims about QantaDatabase (SpecFolds).                                 *)
(***************************************************************************)
SixFolds == FoldLabels \ {"train"}

Constructed == db # Nothing
TheDb == db[1]

\* the questions of fold list f of the constructed database
FoldSet(f) == Elems(by_fold(TheDb)[f])
FoldUnion == UNION { FoldSet(f) : f \in SixFolds }
NumListsHolding(q) == Cardinality({ f \in SixFolds : q \in FoldSet(f) })

PairwiseDisjoint ==
    \A f, g \in SixFolds : f # g => FoldSet(f) \cap FoldSet(g) = {}

MappedIffPage ==
    \A q \in Elems(raw_questions) :
        q \in Elems(TheDb.mapped_questions) <=> q.page # None

\* C1 as stated: with no category filter the six fold lists are pairwise
\* disjoint, their union is mapped_questions, a question is mapped iff its
\* page is non-null, a null-page question is in no list and every question
\* with a page is in exactly one list, whatever its fold label.
C1_AsStated ==
    (Constructed /\ category = Nothing) =>
        /\ PairwiseDisjoint
        /\ FoldUnion = Elems(TheDb.mapped_questions)
        /\ MappedIffPage
        /\ \A q \in Elems(raw_questions) :
              NumListsHolding(q) = IF q.page = None THEN 0 ELSE 1

\* C1 amended: with no category filter the six fold lists are pairwise
\* disjoint, a question is mapped iff its page is non-null, the union of the
\* lists is the mapped questions whose fold label is one of the six labels,
\* and a question is in exactly one list if it has a page and one of the six
\* labels and in no list otherwise.
C1_FoldPartition ==
    (Constructed /\ category = Nothing) =>
        /\ PairwiseDisjoint
        /\ MappedIffPage
        /\ FoldUnion = { q \in Elems(TheDb.mapped_questions) : q.fold \in SixFolds }
        /\ \A q \in Elems(raw_questions) :
              NumListsHolding(q) =
                  IF q.page # None /\ q.fold \in SixFolds THEN 1 ELSE 0

\* a database built, with no filter, over a null-page question, a question
\* with a page and a known fold, both present
C1_Witness ==
    /\ Constructed /\ category = Nothing
    /\ \E q \in Elems(raw_questions) : q.page = None
    /\ \E q \in Elems(raw_questions) : q.page # None /\ NumListsHolding(q) = 1

(***************************************************************************)
(* Claims about Question.runs (SpecRuns).                                  *)
(***************************************************************************)
Returned == runs_result # Nothing
prefixes == runs_result[1][1]
indices == runs_result[1][2]
CeilDiv(a, b) == (a + b - 1) \div b
Min(a, b) == IF a < b THEN a ELSE b

\* C2: for s > 0 and a text of length L > 0, runs returns ceil(L/s) prefixes
\* with end indices s, 2s, ... up to and including the first index >= L; the
\* k-th prefix is text[0:min(k*s, L)]; the lengths strictly increase, the last
\* prefix is the whole text, and s >= L gives exactly one prefix.
C2_RunsPrefixes ==
    (Returned /\ Len(text) > 0) =>
        LET L == Len(text)
            s == char_skip
            n == Len(prefixes)
        IN /\ n = CeilDiv(L, s)
           /\ Len(indices) = n
           /\ \A k \in 1..n : indices[k] = k * s
           /\ indices[n] >= L
           /\ \A k \in 1..(n - 1) : indices[k] < L
           /\ \A k \in 1..n : prefixes[k] = SubSeq(text, 1, Min(k * s, L))
           /\ \A k \in 1..(n - 1) : Len(prefixes[k]) < Len(prefixes[k + 1])
           /\ prefixes[n] = text
           /\ (s >= L => n = 1)

\* runs returned for a text that the last stride overshoots
C2_Witness ==
    /\ Returned /\ Len(text) = 4 /\ char_skip = 3
    /\ Len(prefixes) = 2 /\ indices = <<3, 6>>

\* C3: for s > 0, runs on an empty text returns exactly one prefix (the empty
\* string) with exactly one end index.
C3_EmptyTextOnePrefix ==
    (Returned /\ Len(text) = 0) =>
        /\ Len(prefixes) = 1
        /\ prefixes[1] = <<>>
        /\ Len(indices) = 1

(***************************************************************************)
(* preprocess.py: clean_question and tokenize_question, with map_pattern,  *)
(* wiki_links and use_es_highlight at their default False.  A string is a  *)
(* sequence of characters, a token is the string of its characters.        *)
(***************************************************************************)
WordChars == {"a", "b", "c", "s", "z", "B"}
Space == " "
Comma == ","
Apostrophe == "'"

\* str.lower, character by character
LowerChar(c) == IF c = "B" THEN "b" ELSE c
PyLower(str) == [i \in 1..Len(str) |-> LowerChar(str[i])]

\* str.strip: leading and trailing whitespace removed
RECURSIVE LStrip(_)
LStrip(str) ==
    IF str # <<>> /\ Head(str) = Space THEN LStrip(Tail(str)) ELSE str
RECURSIVE RStrip(_)
RStrip(str) ==
    IF str # <<>> /\ str[Len(str)] = Space
    THEN RStrip(SubSeq(str, 1, Len(str) - 1)) ELSE str
PyStrip(str) == RStrip(LStrip(str))

\* re.sub(regex_pattern_apostrophe, my_apos_replace, str): each match of
\* (\w+)'s is replaced by its word; in_word says that the character before
\* position i is a word character no earlier match has consumed
RECURSIVE ApostropheSubFrom(_, _, _)
ApostropheSubFrom(str, i, in_word) ==
    IF i > Len(str) THEN <<>>
    ELSE IF in_word /\ str[i] = Apostrophe /\ i < Len(str) /\ str[i + 1] = "s"
         THEN ApostropheSubFrom(str, i + 2, FALSE)
         ELSE <<str[i]>> \o ApostropheSubFrom(str, i + 1, str[i] \in WordChars)
ApostropheSub(str) == ApostropheSubFrom(str, 1, FALSE)

\* the characters of string.punctuation among the characters above
Punctuation == {Comma, Apostrophe}

\* re.sub(regex_pattern, '', str) on the characters above: every punctuation
\* character is removed (no filler phrase and no bracket can be written with
\* them)
RegexPatternSub(str) ==
    LET Kept(c) == c \notin Punctuation
    IN SelectSeq(str, Kept)

\* clean_question: the result of the filler/punctuation substitution of line
\* 157 is overwritten by line 158, which starts again from question_lower
clean_question(question) ==
    LET question_lower == PyLower(question)
    IN ApostropheSub(PyStrip(question_lower))

\* nltk.word_tokenize on the characters above: tokens are separated by
\* whitespace and a comma is a token of its own
RECURSIVE WordTokenizeFrom(_, _, _)
WordTokenizeFrom(str, i, cur) ==
    LET flush == IF cur = <<>> THEN <<>> ELSE <<cur>>
    IN IF i > Len(str) THEN flush
       ELSE IF str[i] = Space THEN flush \o WordTokenizeFrom(str, i + 1, <<>>)
       ELSE IF str[i] = Comma
            THEN flush \o <<(<<Comma>>)>> \o WordTokenizeFrom(str, i + 1, <<>>)
       ELSE WordTokenizeFrom(str, i + 1, Append(cur, str[i]))
word_tokenize(str) == WordTokenizeFrom(str, 1, <<>>)

tokenize_question(str) == word_tokenize(clean_question(str))

(***************************************************************************)
(* preprocess.py: preprocess_dataset.  Sizes are in tenths (9 is 0.9).     *)
(***************************************************************************)
\* the questions of the input: each is the list of its sentences
QuestionPool ==
    { << <<"a">> >>,
      << <<" ">>, <<"B", " ", "c">> >>,
      << <<"B", " ", "c">>, <<"a">> >>,
      << <<" ">> >>,
      << <<"a", "'", "s", ",", "z">> >> }
AnswerPages == {"Page_A", "Page_B"}
Example == [q : QuestionPool, ans : AnswerPages]

\* the (train_size, test_size) pairs a caller passes
SizePairs == { <<9, 1>>, <<10, 0>>, <<10, 1>> }
\* the vocab argument: None, or a set the caller built before
VocabArgs == { Nothing, Some({ <<"z">> }) }

\* the class_to_i and i_to_class arguments: None, or the maps of an earlier
\* call, given by the list i_to_class
MapArgs == { Nothing, Some(<<"Page_B", "Page_A">>) }

PreArgs == [train_size : {9, 10}, test_size : {0, 1},
            create_runs : BOOLEAN, full_question : BOOLEAN, vocab : VocabArgs,
            maps : MapArgs]

\* all lists of n distinct elements of S (a shuffled sample)
RECURSIVE Samples(_, _)
Samples(S, n) ==
    IF n = 0 THEN {<<>>}
    ELSE UNION { { <<x>> \o rest : rest \in Samples(S \ {x}, n - 1) } : x \in S }

FloorTenths(size, n) == (size * n) \div 10
CeilTenths(size, n) == (size * n + 9) \div 10

\* train_test_split(pairs, train_size, test_size): the pairs it may return,
\* as lists of positions of the input
TrainTestSplits(n, train_size, test_size) ==
    LET n_test == CeilTenths(test_size, n)
        n_train == FloorTenths(train_size, n)
    IN { pr \in Samples(1..n, n_train) \X Samples(1..n, n_test) :
             Elems(pr[1]) \cap Elems(pr[2]) = {} }

\* a training loop that collects no vocabulary in full-question mode
TrainSentence_SkipsVocabInFullMode(st, t_question, a, label) ==
    LET q_text == IF a.create_runs \/ a.full_question
                  THEN st.q_text \o t_question ELSE t_question
        some == Len(t_question) > 0
    IN [q_text |-> q_text,
        vocab |-> IF some /\ ~a.full_question
                  THEN st.vocab \cup Elems(t_question) ELSE st.vocab,
        x |-> IF some /\ (a.create_runs \/ ~a.full_question)
              THEN Append(st.x, q_text) ELSE st.x,
        y |-> IF some /\ ~a.full_question THEN Append(st.y, label) ELSE st.y]

\* a training loop that emits the sentence's own tokens in run mode
TrainSentence_RunsNotCumulative(st, t_question, a, label) ==
    LET q_text == IF a.create_runs \/ a.full_question
                  THEN st.q_text \o t_question ELSE t_question
        some == Len(t_question) > 0
    IN [q_text |-> q_text,
        vocab |-> IF some THEN st.vocab \cup Elems(t_question) ELSE st.vocab,
        x |-> IF some /\ (a.create_runs \/ ~a.full_question)
              THEN Append(st.x, t_question) ELSE st.x,
        y |-> IF some /\ ~a.full_question THEN Append(st.y, label) ELSE st.y]

\* lines 224-238: what one sentence of a training question does to q_text,
\* vocab, x_train and y_train
TrainSentence(st, t_question, a, label) ==
    LET q_text == IF a.create_runs \/ a.full_question
                  THEN st.q_text \o t_question ELSE t_question
        some == Len(t_question) > 0
    IN [q_text |-> q_text,
        vocab |-> IF some THEN st.vocab \cup Elems(t_question) ELSE st.vocab,
        x |-> IF some /\ (a.create_runs \/ ~a.full_question)
              THEN Append(st.x, q_text) ELSE st.x,
        y |-> IF some /\ ~a.full_question THEN Append(st.y, label) ELSE st.y]

\* a test loop that emits an example for a sentence without tokens too
TestSentence_EmitsEmpty(st, t_question, a, label) ==
    LET q_text == IF a.create_runs \/ a.full_question
                  THEN st.q_text \o t_question ELSE t_question
    IN [q_text |-> q_text,
        vocab |-> st.vocab,
        x |-> IF ~a.full_question THEN Append(st.x, q_text) ELSE st.x,
        y |-> IF ~a.full_question THEN Append(st.y, label) ELSE st.y]

\* lines 246-256: what one sentence of a test question does to q_text,
\* x_test and y_test
TestSentence(st, t_question, a, label) ==
    LET some == Len(t_question) > 0
        q_text == IF ~some THEN st.q_text
                  ELSE IF a.create_runs \/ a.full_question
                       THEN st.q_text \o t_question ELSE t_question
    IN [q_text |-> q_text,
        vocab |-> st.vocab,
        x |-> IF some /\ ~a.full_question THEN Append(st.x, q_text) ELSE st.x,
        y |-> IF some /\ ~a.full_question THEN Append(st.y, label) ELSE st.y]

\* the loop "for sentence in q" of either partition, from sentence k on
RECURSIVE Sentences(_, _, _, _, _, _)
Sentences(is_train, q, k, st, a, label) ==
    IF k > Len(q) THEN st
    ELSE LET t_question == tokenize_question(q[k])
             next == IF is_train THEN TrainSentence(st, t_question, a, label)
                     ELSE TestSentence(st, t_question, a, label)
         IN Sentences(is_train, q, k + 1, next, a, label)

\* one iteration of "for q, ans in train" (lines 221-241) or of
\* "for q, ans in test" (lines 243-259)
QuestionStep(is_train, ex, x, y, v, a, c2i) ==
    LET label == c2i[ex.ans]
        st == Sentences(is_train, ex.q, 1,
                        [q_text |-> <<>>, vocab |-> v, x |-> x, y |-> y], a, label)
    IN IF a.full_question
       THEN [st EXCEPT !.x = Append(st.x, st.q_text), !.y = Append(st.y, label)]
       ELSE st

(***************************************************************************)
(* SpecPre: one call of preprocess_dataset.                                *)
(***************************************************************************)
TheArgs == p_args[1]

\* an enumeration that starts at 1
ClassToI_FromOne(order) == [c \in Elems(order) |-> CHOOSE i \in 1..Len(order) : order[i] = c]

\* {c: i for i, c in enumerate(order)}
ClassToI(order) == [c \in Elems(order) |-> (CHOOSE i \in 1..Len(order) : order[i] = c) - 1]

\* the objects the parameters vocab, class_to_i and i_to_class are bound to
\* when the call starts; an argument None is shown as the empty container
\* lines 201-202 and 212 put in its place
PassedVocab(a) == IF a.vocab = Nothing THEN {} ELSE a.vocab[1]
PassedClassToI(a) == IF a.maps = Nothing THEN <<>> ELSE ClassToI(a.maps[1])
PassedIToClass(a) == IF a.maps = Nothing THEN <<>> ELSE a.maps[1]

InitPre ==
    /\ data \in UNION { [1..n -> Example] : n \in 1..MaxData }
    /\ p_args \in { Some(a) : a \in { b \in PreArgs :
                                     <<b.train_size, b.test_size>> \in SizePairs } }
    /\ p_pc = "call"
    /\ class_to_i = PassedClassToI(TheArgs) /\ i_to_class = PassedIToClass(TheArgs)
    /\ train = <<>> /\ test = <<>>
    /\ x_train = <<>> /\ y_train = <<>> /\ x_test = <<>> /\ y_test = <<>>
    /\ vocab = PassedVocab(TheArgs) /\ p_i = 0
    /\ IdleFolds /\ IdleRuns /\ IdleGuess /\ IdleTrain

\* lines 192-194
PreRaiseIncompatible ==
    /\ p_pc = "call"
    /\ TheArgs.full_question /\ TheArgs.create_runs
    /\ p_pc' = "raised_incompatible"
    /\ UNCHANGED <<data, p_args, class_to_i, i_to_class, train, test,
                   x_train, y_train, x_test, y_test, vocab, p_i>>
    /\ UNCHANGED exceptPre

\* a validation that tests the sizes before the flags
PreRaiseSizes_BeforeFlags ==
    /\ p_pc = "call"
    /\ TheArgs.train_size + TheArgs.test_size > 10
    /\ p_pc' = "raised_sizes"
    /\ UNCHANGED <<data, p_args, class_to_i, i_to_class, train, test,
                   x_train, y_train, x_test, y_test, vocab, p_i>>
    /\ UNCHANGED exceptPre

\* lines 195-197
PreRaiseSizes ==
    /\ p_pc = "call"
    /\ ~(TheArgs.full_question /\ TheArgs.create_runs)
    /\ TheArgs.train_size + TheArgs.test_size > 10
    /\ p_pc' = "raised_sizes"
    /\ UNCHANGED <<data, p_args, class_to_i, i_to_class, train, test,
                   x_train, y_train, x_test, y_test, vocab, p_i>>
    /\ UNCHANGED exceptPre

PreValid ==
    /\ p_pc = "call"
    /\ ~(TheArgs.full_question /\ TheArgs.create_runs)
    /\ TheArgs.train_size + TheArgs.test_size <= 10

\* lines 199-205: the labels are enumerated in the iteration order of a set
\* of strings, which is any order
LabelOrders == Samples({ data[k].ans : k \in 1..Len(data) },
                       Cardinality({ data[k].ans : k \in 1..Len(data) }))

\* lines 199-219, when train_test_split is not called or returns
PreSetup ==
    /\ PreValid
    /\ IF TheArgs.maps = Nothing
       THEN \E order \in LabelOrders :
               /\ i_to_class' = order
               /\ class_to_i' = ClassToI(order)
       ELSE UNCHANGED <<class_to_i, i_to_class>>
    /\ vocab' = IF TheArgs.vocab = Nothing THEN {} ELSE vocab
    /\ IF TheArgs.train_size # 10
       THEN \E sp \in TrainTestSplits(Len(data), TheArgs.train_size, TheArgs.test_size) :
               /\ train' = [k \in 1..Len(sp[1]) |-> data[sp[1][k]]]
               /\ test' = [k \in 1..Len(sp[2]) |-> data[sp[2][k]]]
       ELSE /\ train' = data
            /\ test' = <<>>
    /\ p_pc' = "loops"
    /\ UNCHANGED <<data, p_args, x_train, y_train, x_test, y_test, p_i>>
    /\ UNCHANGED exceptPre

\* line 216, when train_test_split raises: releases of scikit-learn from
\* 0.21 on refuse a split whose training part would be empty
PreSplitRaises ==
    /\ PreValid
    /\ TheArgs.train_size # 10
    /\ FloorTenths(TheArgs.train_size, Len(data)) = 0
    /\ p_pc' = "raised_split"
    /\ UNCHANGED <<data, p_args, class_to_i, i_to_class, train, test,
                   x_train, y_train, x_test, y_test, vocab, p_i>>
    /\ UNCHANGED exceptPre

\* lines 221-241, one question
PreTrainQuestion ==
    /\ p_pc = "loops"
    /\ p_i < Len(train)
    /\ LET st == QuestionStep(TRUE, train[p_i + 1], x_train, y_train, vocab,
                              TheArgs, class_to_i)
       IN /\ x_train' = st.x
          /\ y_train' = st.y
          /\ vocab' = st.vocab
    /\ p_i' = p_i + 1
    /\ UNCHANGED <<data, p_args, p_pc, class_to_i, i_to_class, train, test,
                   x_test, y_test>>
    /\ UNCHANGED exceptPre

\* lines 243-259, one question
PreTestQuestion ==
    /\ p_pc = "loops"
    /\ p_i >= Len(train)
    /\ p_i < Len(train) + Len(test)
    /\ LET st == QuestionStep(FALSE, test[p_i - Len(train) + 1], x_test, y_test, vocab,
                              TheArgs, class_to_i)
       IN /\ x_test' = st.x
          /\ y_test' = st.y
          /\ vocab' = st.vocab
    /\ p_i' = p_i + 1
    /\ UNCHANGED <<data, p_args, p_pc, class_to_i, i_to_class, train, test,
                   x_train, y_train>>
    /\ UNCHANGED exceptPre

\* lines 261-263
PreReturn ==
    /\ p_pc = "loops"
    /\ p_i = Len(train) + Len(test)
    /\ p_pc' = "returned"
    /\ UNCHANGED <<data, p_args, class_to_i, i_to_class, train, test,
                   x_train, y_train, x_test, y_test, vocab, p_i>>
    /\ UNCHANGED exceptPre

NextPre ==
    \/ PreRaiseIncompatible
    \/ PreRaiseSizes
    \/ PreSetup
    \/ PreSplitRaises
    \/ PreTrainQuestion
    \/ PreTestQuestion
    \/ PreReturn

SpecPre == InitPre /\ [][NextPre]_vars

(***************************************************************************)
(* Claims about preprocess_dataset (SpecPre).                              *)
(***************************************************************************)
PreReturned == p_pc = "returned"

\* the tokens of all sentences of one question
QuestionTokens(q) == UNION { Elems(tokenize_question(q[j])) : j \in 1..Len(q) }
\* the tokens of the sentences of the questions of a partition
PartitionTokens(part) == UNION { QuestionTokens(part[k].q) : k \in 1..Len(part) }
SuppliedVocab == IF TheArgs.vocab = Nothing THEN {} ELSE TheArgs.vocab[1]

\* C9: when preprocess_dataset has returned, in every mode, the vocabulary is
\* the caller-supplied vocabulary (empty if none) united with exactly the
\* tokens of the sentences of the training partition; a token that occurs
\* only in test-partition questions is not in it.
C9_VocabFromTrainOnly ==
    PreReturned =>
        /\ vocab = SuppliedVocab \cup PartitionTokens(train)
        /\ \A w \in PartitionTokens(test) :
              (w \notin PartitionTokens(train) /\ w \notin SuppliedVocab)
                  => w \notin vocab

\* a call that returned after processing a test question holding a token
\* that no training question holds, with training tokens of its own
C9_Witness ==
    /\ PreReturned
    /\ PartitionTokens(train) # {}
    /\ \E w \in PartitionTokens(test) :
          w \notin PartitionTokens(train) /\ w \notin SuppliedVocab

(***************************************************************************)
(* train_DAN.py: the vocabulary ids (train, lines 175-177).                *)
(***************************************************************************)
UNK == <<"<", "u", "n", "k", ">">>
EOS == <<"<", "e", "o", "s", ">">>

\* ord(c) for the characters of the model
CodePoint(c) ==
    CASE c = " " -> 32 [] c = "'" -> 39 [] c = "," -> 44 [] c = "<" -> 60
      [] c = ">" -> 62 [] c = "B" -> 66 [] c = "a" -> 97 [] c = "b" -> 98
      [] c = "c" -> 99 [] c = "e" -> 101 [] c = "k" -> 107 [] c = "n" -> 110
      [] c = "o" -> 111 [] c = "s" -> 115 [] c = "u" -> 117 [] c = "z" -> 122

\* str < str in Python: lexicographic by code point
RECURSIVE StrLess(_, _)
StrLess(x, y) ==
    IF x = <<>> THEN y # <<>>
    ELSE IF y = <<>> THEN FALSE
    ELSE IF Head(x) # Head(y) THEN CodePoint(Head(x)) < CodePoint(Head(y))
    ELSE StrLess(Tail(x), Tail(y))

\* sorted(S) for a set of strings
RECURSIVE sorted(_)
sorted(S) ==
    IF S = {} THEN <<>>
    ELSE LET least == CHOOSE x \in S : \A y \in S \ {x} : StrLess(x, y)
         IN <<least>> \o sorted(S \ {least})

\* {x: i for i, x in enumerate(lst)}: a later position replaces an earlier one
DictOfEnumerate(lst) ==
    [x \in Elems(lst) |->
        (CHOOSE i \in 1..Len(lst) :
            lst[i] = x /\ \A j \in (i + 1)..Len(lst) : lst[j] # x) - 1]

\* vocab = ['<unk>', '<eos>'] + sorted(vocab); word_to_i = {...}
BuildWordToI(vocab_set) == DictOfEnumerate(<<UNK, EOS>> \o sorted(vocab_set))

(***************************************************************************)
(* train_DAN.py: make_array, transform_to_array, batchify.  A call returns *)
(* its value and the dictionary it was given as the call leaves it.        *)
(***************************************************************************)
\* vocab.get(token, unk_id)
DictGet(d, key, default) == IF key \in DOMAIN d THEN d[key] ELSE default

\* a make_array that looks tokens up with vocab.setdefault(token, unk_id)
make_array_Setdefault(tokens, vocab_dict) ==
    LET unseen == { tokens[i] : i \in 1..Len(tokens) } \ DOMAIN vocab_dict
        grown == [x \in DOMAIN vocab_dict \cup unseen |->
                     IF x \in DOMAIN vocab_dict THEN vocab_dict[x] ELSE vocab_dict[UNK]]
    IN [ids |-> [i \in 1..Len(tokens) |-> grown[tokens[i]]] \o <<vocab_dict[EOS]>>,
        vocab |-> grown]

\* make_array(tokens, vocab) with add_eos=True
make_array(tokens, vocab_dict) ==
    LET unk_id == vocab_dict[UNK]
        eos_id == vocab_dict[EOS]
        ids == [i \in 1..Len(tokens) |-> DictGet(vocab_dict, tokens[i], unk_id)]
    IN [ids |-> ids \o <<eos_id>>, vocab |-> vocab_dict]

\* transform_to_array(dataset, vocab): dataset is a list of [tokens, cls]
RECURSIVE transform_to_array(_, _)
transform_to_array(dataset, vocab_dict) ==
    IF dataset = <<>> THEN [arrays |-> <<>>, vocab |-> vocab_dict]
    ELSE LET first == make_array(Head(dataset).tokens, vocab_dict)
             rest == transform_to_array(Tail(dataset), first.vocab)
         IN [arrays |-> <<[ids |-> first.ids, cls |-> Head(dataset).cls]>> \o rest.arrays,
             vocab |-> rest.vocab]

\* max(lst) of a non-empty list of numbers
PyMax(lst) == CHOOSE m \in Elems(lst) : \A x \in Elems(lst) : x <= m

\* a batchify that fills the tensor with the end-of-sequence id
batchify_PadsWithEos(batch, vocab_dict) ==
    LET tr == transform_to_array(batch, vocab_dict)
        arrays == tr.arrays
        question_len == [i \in 1..Len(arrays) |-> Len(arrays[i].ids)]
        label_list == [i \in 1..Len(arrays) |-> arrays[i].cls]
        width == PyMax(question_len)
        x1 == [i \in 1..Len(arrays) |->
                 [j \in 1..width |-> IF j <= question_len[i] THEN arrays[i].ids[j]
                                     ELSE vocab_dict[EOS]]]
    IN [q_batch |-> [text |-> x1, len |-> question_len, labels |-> label_list],
        vocab |-> tr.vocab]

\* DANGuesser.batchify(batch) for a non-empty batch
batchify(batch, vocab_dict) ==
    LET tr == transform_to_array(batch, vocab_dict)
        arrays == tr.arrays
        question_len == [i \in 1..Len(arrays) |-> Len(arrays[i].ids)]
        label_list == [i \in 1..Len(arrays) |-> arrays[i].cls]
        width == PyMax(question_len)
        x1 == [i \in 1..Len(arrays) |->
                 [j \in 1..width |-> IF j <= question_len[i] THEN arrays[i].ids[j] ELSE 0]]
    IN [q_batch |-> [text |-> x1, len |-> question_len, labels |-> label_list],
        vocab |-> tr.vocab]

(***************************************************************************)
(* models.py: DanModel.forward in eval mode.  The parameters are reduced   *)
(* to one class per vocabulary id (0: none): the embedding of an id adds 1 *)
(* to the logit of its class.  The pooled sum runs over the whole padded   *)
(* row, as embed.sum(1) does; the division by the length does not change   *)
(* the order of the logits of a row and is left out.                       *)
(***************************************************************************)
forward(params, text_input) ==
    [i \in 1..Len(text_input) |->
        [c \in 1..Len(self_i_to_class) |->
            Cardinality({ j \in 1..Len(text_input[i]) : params[text_input[i][j] + 1] = c })]]

RECURSIVE Pow2(_)
Pow2(n) == IF n = 0 THEN 1 ELSE 2 * Pow2(n - 1)
RECURSIVE SumOver(_, _)
SumOver(f, n) == IF n = 0 THEN 0 ELSE f[n] + SumOver(f, n - 1)

\* F.softmax(out): the probability of class c is the fraction <<num, den>>,
\* with base 2 standing for e
softmax_row(logits) ==
    LET w == [c \in 1..Len(logits) |-> Pow2(logits[c])]
    IN [c \in 1..Len(logits) |-> <<w[c], SumOver(w, Len(logits))>>]
softmax(out) == [i \in 1..Len(out) |-> softmax_row(out[i])]

\* p > q for two fractions
FracGreater(p, q) == p[1] * q[2] > q[1] * p[2]

\* np.argsort(-probs) of one row: descending probability; the default sort
\* kind is not stable, and equal keys come out in the order `ties` (a list of
\* all positions) ranks them
RECURSIVE ArgsortFrom(_, _, _)
ArgsortFrom(probs_row, ties, remaining) ==
    IF remaining = {} THEN <<>>
    ELSE LET rank(c) == CHOOSE r \in 1..Len(ties) : ties[r] = c
             Before(c, d) == \/ FracGreater(probs_row[c], probs_row[d])
                             \/ /\ probs_row[c] = probs_row[d]
                                /\ rank(c) < rank(d)
             first == CHOOSE c \in remaining : \A d \in remaining \ {c} : Before(c, d)
         IN <<first>> \o ArgsortFrom(probs_row, ties, remaining \ {first})
argsort_desc(probs_row, ties) == ArgsortFrom(probs_row, ties, 1..Len(probs_row))

\* lst[:n] for n None or n >= 0
PyHead(lst, n) ==
    IF n = Nothing THEN lst ELSE SubSeq(lst, 1, IF n[1] < Len(lst) THEN n[1] ELSE Len(lst))

\* lines 277-283: the guesses of each example
guess_rows(probs, k, ties, labels) ==
    [i \in 1..Len(probs) |->
        LET preds == PyHead(argsort_desc(probs[i], ties), k)
        IN [g \in 1..Len(preds) |-> <<labels[preds[g]], probs[i][preds[g]]>>]]

\* DANGuesser.guess(questions, max_n_guesses) on a facade with the given
\* parameters and maps
guess(qs, k, params, vocab_dict, labels, ties) ==
    LET x_data == [i \in 1..Len(qs) |-> tokenize_question(qs[i])]
        batch == [i \in 1..Len(qs) |-> [tokens |-> x_data[i], cls |-> 0]]
        b == batchify(batch, vocab_dict)
        out == forward(params, b.q_batch.text)
        probs == softmax(out)
    IN [guesses |-> guess_rows(probs, k, ties, labels),
        q_batch |-> b.q_batch,
        vocab |-> b.vocab]

(***************************************************************************)
(* SpecGuess: guess is called on a facade that train() or load() built.    *)
(***************************************************************************)
\* the vocabulary sets preprocess_dataset returned to train()
TrainedVocabs == { { <<"a">> }, { <<"b">>, <<"a">> } }
\* self.i_to_class
TrainedLabels == <<"Page_B", "Page_C", "Page_A">>
\* the strings a caller asks about
QuestionStrings == { <<"a">>, <<>>, <<"B", " ", "c">> }

\* the parameter values of a model for a vocabulary of n ids; the embedding
\* of the end-of-sequence id (position 2) is kept neutral to bound the space
ParamSpace(n) == { params \in [1..n -> 0..Len(TrainedLabels)] : params[2] = 0 }
\* the arguments max_n_guesses a caller passes
GuessCounts == {Nothing} \cup { Some(k) : k \in 0..MaxGuesses }

InitGuess ==
    /\ \E v \in TrainedVocabs :
          /\ word_to_i = BuildWordToI(v)
          /\ model \in ParamSpace(Cardinality(v) + 2)
    /\ self_i_to_class = TrainedLabels
    /\ argsort_ties \in Samples(1..Len(TrainedLabels), Len(TrainedLabels))
    /\ questions \in UNION { [1..n -> QuestionStrings] : n \in 1..MaxBatch }
    /\ max_n_guesses = Nothing
    /\ q_batch = Nothing
    /\ guesses = Nothing
    /\ IdleFolds /\ IdleRuns /\ IdlePre /\ IdleTrain

\* guesser.guess(questions, max_n_guesses)
Guess ==
    /\ guesses = Nothing
    /\ \E k \in GuessCounts :
          LET r == guess(questions, k, model, word_to_i, self_i_to_class, argsort_ties)
          IN /\ max_n_guesses' = k
             /\ guesses' = Some(r.guesses)
             /\ q_batch' = Some(r.q_batch)
             /\ word_to_i' = r.vocab
    /\ UNCHANGED <<self_i_to_class, model, argsort_ties, questions>>
    /\ UNCHANGED exceptGuess

NextGuess == Guess

SpecGuess == InitGuess /\ [][NextGuess]_vars

(***************************************************************************)
(* Claims about guess, batchify and make_array (SpecGuess).                *)
(***************************************************************************)
Guessed == guesses # Nothing
TheGuesses == guesses[1]
TheBatch == q_batch[1]
NumClasses == Len(self_i_to_class)
\* the class index (from 0) of a label
ClassIndex(label) == (CHOOSE c \in 1..NumClasses : self_i_to_class[c] = label) - 1
\* the probabilities the model gives the rows of the batch guess built
BatchProbs == softmax(forward(model, TheBatch.text))
\* how many guesses each question is due
GuessesDue ==
    IF max_n_guesses = Nothing THEN NumClasses ELSE Min(max_n_guesses[1], NumClasses)

\* the guesses of question i are classes of the model with their
\* probabilities, no class twice
GuessesAreClasses(i) ==
    /\ \A g \in 1..Len(TheGuesses[i]) :
          /\ TheGuesses[i][g][1] \in Elems(self_i_to_class)
          /\ TheGuesses[i][g][2] = BatchProbs[i][ClassIndex(TheGuesses[i][g][1]) + 1]
    /\ \A g, h \in 1..Len(TheGuesses[i]) :
          g # h => TheGuesses[i][g][1] # TheGuesses[i][h][1]

\* the guesses of question i are in descending order of probability and no
\* class left out has a higher probability than one listed
GuessesAreTop(i) ==
    /\ \A g, h \in 1..Len(TheGuesses[i]) :
          g < h => ~FracGreater(TheGuesses[i][h][2], TheGuesses[i][g][2])
    /\ \A g \in 1..Len(TheGuesses[i]) : \A c \in 1..NumClasses :
          self_i_to_class[c] \notin { TheGuesses[i][h][1] : h \in 1..Len(TheGuesses[i]) }
              => ~FracGreater(BatchProbs[i][c], TheGuesses[i][g][2])

\* among equal probabilities the lower class index comes first, and is
\* listed before any class left out
TiesByLowerIndex(i) ==
    /\ \A g, h \in 1..Len(TheGuesses[i]) :
          (g < h /\ TheGuesses[i][g][2] = TheGuesses[i][h][2])
              => ClassIndex(TheGuesses[i][g][1]) < ClassIndex(TheGuesses[i][h][1])
    /\ \A g \in 1..Len(TheGuesses[i]) : \A c \in 1..NumClasses :
          (/\ self_i_to_class[c] \notin
                 { TheGuesses[i][h][1] : h \in 1..Len(TheGuesses[i]) }
           /\ BatchProbs[i][c] = TheGuesses[i][g][2])
              => ClassIndex(TheGuesses[i][g][1]) < c - 1

\* C8: guess returns one list per input string, in input order; each list
\* holds the min(max_n_guesses, number of classes) classes of highest
\* probability as (label, probability) pairs in descending order of
\* probability, and of two classes of equal probability the one with the
\* lower class index comes first.
C8_TopGuesses ==
    Guessed =>
        /\ Len(TheGuesses) = Len(questions)
        /\ \A i \in 1..Len(questions) :
              /\ Len(TheGuesses[i]) = GuessesDue
              /\ GuessesAreClasses(i)
              /\ GuessesAreTop(i)
              /\ TiesByLowerIndex(i)

\* the part of C8 that does not depend on the order of equal probabilities
C8_TopGuessesUpToTies ==
    Guessed =>
        /\ Len(TheGuesses) = Len(questions)
        /\ \A i \in 1..Len(questions) :
              /\ Len(TheGuesses[i]) = GuessesDue
              /\ GuessesAreClasses(i)
              /\ GuessesAreTop(i)

\* the ids make_array gave question i: row i of the batch up to its length
IdsOf(i) == SubSeq(TheBatch.text[i], 1, TheBatch.len[i])

IdsAsClaimed ==
    q_batch # Nothing =>
        \A i \in 1..Len(questions) :
            LET tokens == tokenize_question(questions[i])
                ids == IdsOf(i)
            IN /\ Len(ids) = Len(tokens) + 1
               /\ \A j \in 1..Len(tokens) :
                     ids[j] = IF tokens[j] \in DOMAIN word_to_i
                              THEN word_to_i[tokens[j]] ELSE word_to_i[UNK]
               /\ ids[Len(tokens) + 1] = word_to_i[EOS]

\* C10: make_array maps n tokens to n+1 ids, the i-th being the vocabulary
\* id of the i-th token if the token is in the vocabulary and the unknown id
\* otherwise, followed by the end-of-sequence id; and make_array, batchify
\* and guess never add an entry to word_to_i nor change an id.
C10_IdsAndFrozenVocab ==
    /\ []IdsAsClaimed
    /\ [][word_to_i' = word_to_i]_vars

\* guess has run on a batch with a token of the vocabulary and a token
\* outside it
C10_Witness ==
    /\ Guessed
    /\ \E i \in 1..Len(questions) :
          \E j \in 1..Len(tokenize_question(questions[i])) :
              /\ tokenize_question(questions[i])[j] \notin DOMAIN word_to_i
              /\ IdsOf(i)[j] = word_to_i[UNK]
    /\ \E i \in 1..Len(questions) :
          \E j \in 1..Len(tokenize_question(questions[i])) :
              /\ tokenize_question(questions[i])[j] \in DOMAIN word_to_i
              /\ IdsOf(i)[j] >= 2

(***************************************************************************)
(* util.py: TrainingManager and the callbacks train() registers.  The      *)
(* callbacks' code is not part of the sources at hand; they are modelled   *)
(* on their contracts.  A metric is a level 0, 1, 2 or NaN; the best value *)
(* seen starts at minus infinity.                                          *)
(***************************************************************************)
NaN == 0 - 1
NegInf == 0 - 2
AccLevels == {0, 1, 2}
IsFinite(v) == v # NaN
\* a > b for floats: false when either is NaN
Greater(a, b) == a # NaN /\ b # NaN /\ a > b

NonFinite(m) ==
    \/ ~IsFinite(m.train_loss) \/ ~IsFinite(m.train_acc)
    \/ ~IsFinite(m.test_loss) \/ ~IsFinite(m.test_acc)

\* the state of the callbacks when the manager is built
NewManager ==
    [n_epochs |-> 0, es_best |-> NegInf, es_wait |-> 0, mc_best |-> NegInf,
     calls |-> <<>>, save |-> FALSE]

\* one callback's on_epoch_end: its new state and its verdict
OnEpochEnd(name, mgr, m) ==
    CASE name = "BaseLogger" ->
            [mgr |-> mgr, stop |-> FALSE]
      [] name = "TerminateOnNaN" ->
            [mgr |-> mgr, stop |-> NonFinite(m)]
      [] name = "EarlyStopping" ->
            IF Greater(m.test_acc, mgr.es_best)
            THEN [mgr |-> [mgr EXCEPT !.es_best = m.test_acc, !.es_wait = 0],
                  stop |-> FALSE]
            ELSE [mgr |-> [mgr EXCEPT !.es_wait = mgr.es_wait + 1],
                  stop |-> mgr.es_wait + 1 >= Patience]
      [] name = "MaxEpochStopping" ->
            [mgr |-> mgr, stop |-> mgr.n_epochs >= MaxEpochs]
      [] name = "ModelCheckpoint" ->
            IF Greater(m.test_acc, mgr.mc_best)
            THEN [mgr |-> [mgr EXCEPT !.mc_best = m.test_acc, !.save = TRUE],
                  stop |-> FALSE]
            ELSE [mgr |-> mgr, stop |-> FALSE]

\* the callbacks in turn, from callback k on; calls records each callback
\* called, the metrics it was given and its verdict
RECURSIVE RunCallbacks(_, _, _, _)
RunCallbacks(callbacks, k, mgr, m) ==
    IF k > Len(callbacks) THEN mgr
    ELSE LET r == OnEpochEnd(callbacks[k], mgr, m)
             called == [name |-> callbacks[k], metrics |-> m, stop |-> r.stop]
         IN RunCallbacks(callbacks, k + 1,
                         [r.mgr EXCEPT !.calls = Append(r.mgr.calls, called)], m)

\* TrainingManager.instruct: the epoch is logged, every callback is called,
\* training stops if any callback says so, with the reasons of all that do
instruct(callbacks, mgr, m) ==
    LET logged == [mgr EXCEPT !.n_epochs = mgr.n_epochs + 1, !.calls = <<>>,
                              !.save = FALSE]
        after == RunCallbacks(callbacks, 1, logged, m)
        Stops(c) == c.stop
        stopping == SelectSeq(after.calls, Stops)
    IN [mgr |-> after,
        stop_training |-> stopping # <<>>,
        reasons |-> [i \in 1..Len(stopping) |-> stopping[i].name]]

(***************************************************************************)
(* train_DAN.py: DANGuesser.train from line 208 on, save and load.         *)
(***************************************************************************)
\* a registration without the checkpoint callback
Callbacks_NoCheckpoint ==
    <<"BaseLogger", "TerminateOnNaN", "EarlyStopping", "MaxEpochStopping">>

\* lines 213-216: the callbacks in the order they are registered
Callbacks ==
    <<"BaseLogger", "TerminateOnNaN", "EarlyStopping", "MaxEpochStopping",
      "ModelCheckpoint">>

\* the vocabulary and the batch of the training runs explored
TrainVocab == { <<"a">> }
\* the parameter values the optimizer may reach: only the embedding of the
\* vocabulary's token carries a class
TrainableParams == { params \in ParamSpace(Cardinality(TrainVocab) + 2) : params[1] = 0 }

\* what run_epoch may return as (loss, accuracy) for the training pass
TrainMetrics == { <<1, 1>>, <<NaN, 1>>, <<1, NaN>> }
\* and for the validation pass
ValMetrics == { <<1, a>> : a \in AccLevels } \cup { <<NaN, 1>>, <<1, NaN>> }

\* a loop that ignores what the manager returned
LoopExits_Never(stop) == FALSE

\* a loop that tests the flag the wrong way round
LoopExits_OnContinue(stop) == ~stop

\* line 233: if stop_training: ... break
LoopExits(stop) == stop

InitTrain ==
    /\ word_to_i = BuildWordToI(TrainVocab)
    /\ self_i_to_class = TrainedLabels
    /\ model \in TrainableParams
    /\ argsort_ties = <<1, 2, 3>>
    /\ questions = << <<"a">> >>
    /\ max_n_guesses \in { Nothing, Some(1) }
    /\ q_batch = Nothing
    /\ guesses = Nothing
    /\ t_pc = "train_pass"
    /\ epoch = 0
    /\ model_training = FALSE
    /\ metrics = Nothing
    /\ manager = Some(NewManager)
    /\ stop_training = FALSE
    /\ reasons = <<>>
    /\ scheduler_steps = <<>>
    /\ model_file = Nothing
    /\ directory = Nothing
    /\ loaded = Nothing
    /\ loaded_guesses = Nothing
    /\ IdleFolds /\ IdleRuns /\ IdlePre

\* lines 222-223: self.model.train(); run_epoch(train_loader)
TrainPass ==
    /\ t_pc = "train_pass"
    /\ model_training' = TRUE
    /\ model' \in TrainableParams
    /\ \E r \in TrainMetrics :
          metrics' = Some([train_loss |-> r[1], train_acc |-> r[2]])
    /\ t_pc' = "val_pass"
    /\ UNCHANGED <<word_to_i, self_i_to_class, argsort_ties, questions, max_n_guesses,
                   q_batch, guesses>>
    /\ UNCHANGED <<epoch, manager, stop_training, reasons, scheduler_steps, model_file,
                   directory, loaded, loaded_guesses>>
    /\ UNCHANGED exceptTrain

\* lines 225-226: self.model.eval(); run_epoch(dev_loader, train=False)
ValPass ==
    /\ t_pc = "val_pass"
    /\ model_training' = FALSE
    /\ \E r \in ValMetrics :
          metrics' = Some([train_loss |-> metrics[1].train_loss,
                           train_acc |-> metrics[1].train_acc,
                           test_loss |-> r[1], test_acc |-> r[2]])
    /\ t_pc' = "instruct"
    /\ UNCHANGED guessVars
    /\ UNCHANGED <<epoch, manager, stop_training, reasons, scheduler_steps, model_file,
                   directory, loaded, loaded_guesses>>
    /\ UNCHANGED exceptTrain

\* lines 228-231: manager.instruct(...); ModelCheckpoint writes self.model to
\* self.model_file when it saves
Instruct ==
    /\ t_pc = "instruct"
    /\ LET r == instruct(Callbacks, manager[1], metrics[1])
       IN /\ manager' = Some(r.mgr)
          /\ stop_training' = r.stop_training
          /\ reasons' = r.reasons
          /\ model_file' = IF r.mgr.save THEN Some(model) ELSE model_file
    /\ t_pc' = "branch"
    /\ UNCHANGED guessVars
    /\ UNCHANGED <<epoch, model_training, metrics, scheduler_steps, directory, loaded,
                   loaded_guesses>>
    /\ UNCHANGED exceptTrain

\* lines 233-235: log the reasons and leave the loop
Break ==
    /\ t_pc = "branch"
    /\ LoopExits(stop_training)
    /\ t_pc' = "done"
    /\ UNCHANGED guessVars
    /\ UNCHANGED <<epoch, model_training, metrics, manager, stop_training, reasons,
                   scheduler_steps, model_file, directory, loaded, loaded_guesses>>
    /\ UNCHANGED exceptTrain

\* lines 236-238: self.scheduler.step(test_acc); epoch += 1
StepScheduler ==
    /\ t_pc = "branch"
    /\ ~LoopExits(stop_training)
    /\ scheduler_steps' = Append(scheduler_steps, metrics[1].test_acc)
    /\ epoch' = epoch + 1
    /\ t_pc' = "train_pass"
    /\ UNCHANGED guessVars
    /\ UNCHANGED <<model_training, metrics, manager, stop_training, reasons,
                   model_file, directory, loaded, loaded_guesses>>
    /\ UNCHANGED exceptTrain

\* DANGuesser.save(directory) after train(): lines 314-325
Save ==
    /\ t_pc = "done"
    /\ model_file # Nothing
    /\ directory = Nothing
    /\ directory' = Some([pt |-> model_file[1],
                          pkl |-> [i_to_class |-> self_i_to_class,
                                   word_to_i |-> word_to_i]])
    /\ UNCHANGED guessVars
    /\ UNCHANGED <<t_pc, epoch, model_training, metrics, manager, stop_training,
                   reasons, scheduler_steps, model_file, loaded, loaded_guesses>>
    /\ UNCHANGED exceptTrain

\* line 314 when no checkpoint was written: shutil.copyfile raises
SaveRaises ==
    /\ t_pc = "done"
    /\ model_file = Nothing
    /\ t_pc' = "save_raised"
    /\ UNCHANGED guessVars
    /\ UNCHANGED <<epoch, model_training, metrics, manager, stop_training,
                   reasons, scheduler_steps, model_file, directory, loaded,
                   loaded_guesses>>
    /\ UNCHANGED exceptTrain

\* DANGuesser.load(directory): lines 291-311
Load ==
    /\ directory # Nothing
    /\ loaded = Nothing
    /\ loaded' = Some([i_to_class |-> directory[1].pkl.i_to_class,
                       word_to_i |-> directory[1].pkl.word_to_i,
                       model |-> directory[1].pt,
                       model_training |-> FALSE])
    /\ UNCHANGED guessVars
    /\ UNCHANGED <<t_pc, epoch, model_training, metrics, manager, stop_training,
                   reasons, scheduler_steps, model_file, directory, loaded_guesses>>
    /\ UNCHANGED exceptTrain

\* guess(questions, max_n_guesses) on the facade train() was called on
GuessTrained ==
    /\ t_pc = "done"
    /\ guesses = Nothing
    /\ LET r == guess(questions, max_n_guesses, model, word_to_i, self_i_to_class,
                      argsort_ties)
       IN /\ guesses' = Some(r.guesses)
          /\ q_batch' = Some(r.q_batch)
          /\ word_to_i' = r.vocab
    /\ model_training' = FALSE
    /\ UNCHANGED <<self_i_to_class, model, argsort_ties, questions, max_n_guesses>>
    /\ UNCHANGED <<t_pc, epoch, metrics, manager, stop_training, reasons,
                   scheduler_steps, model_file, directory, loaded, loaded_guesses>>
    /\ UNCHANGED exceptTrain

\* guess(questions, max_n_guesses) on the facade load() returned
GuessLoaded ==
    /\ loaded # Nothing
    /\ loaded_guesses = Nothing
    /\ LET r == guess(questions, max_n_guesses, loaded[1].model, loaded[1].word_to_i,
                      loaded[1].i_to_class, argsort_ties)
       IN /\ loaded_guesses' = Some(r.guesses)
          /\ loaded' = Some([loaded[1] EXCEPT !.word_to_i = r.vocab])
    /\ UNCHANGED guessVars
    /\ UNCHANGED <<t_pc, epoch, model_training, metrics, manager, stop_training,
                   reasons, scheduler_steps, model_file, directory>>
    /\ UNCHANGED exceptTrain

NextTrain ==
    \/ TrainPass
    \/ ValPass
    \/ Instruct
    \/ Break
    \/ StepScheduler
    \/ Save
    \/ SaveRaises
    \/ Load
    \/ GuessTrained
    \/ GuessLoaded

SpecTrain == InitTrain /\ [][NextTrain]_vars

(***************************************************************************)
(* Claims about the training loop, save and load (SpecTrain).              *)
(***************************************************************************)
TheManager == manager[1]
TheMetrics == metrics[1]
LoopOver == t_pc \in {"done", "save_raised"}
\* the callbacks that asked to stop in the epoch judged last
Halting == { TheManager.calls[k].name :
               k \in { j \in 1..Len(TheManager.calls) : TheManager.calls[j].stop } }
\* the number of epochs begun: training passes run
EpochsRun == epoch + 1

\* C4: after each epoch every registered callback is called with that
\* epoch's metrics, in registration order; the loop exits at the end of an
\* epoch if and only if at least one callback asked to stop in it; and the
\* reasons reported hold the reason of every callback that asked.
C4_HaltIffAnyCallback ==
    /\ (t_pc = "branch" \/ LoopOver) =>
          /\ [k \in 1..Len(TheManager.calls) |-> TheManager.calls[k].name] = Callbacks
          /\ \A k \in 1..Len(TheManager.calls) :
                TheManager.calls[k].metrics = TheMetrics
    /\ LoopOver =>
          /\ Halting # {}
          /\ Halting \subseteq Elems(reasons)
    /\ (t_pc \in {"train_pass", "val_pass"} /\ epoch > 0) => Halting = {}

\* the loop has ended in an epoch in which two callbacks asked to stop, and
\* both are reported
C4_Witness ==
    /\ LoopOver
    /\ Cardinality(Halting) >= 2
    /\ Len(reasons) >= 2

\* C5: with a max-epoch cap of N the loop runs at most N epochs whatever the
\* metrics are; when no other callback asks to stop earlier it halts after
\* exactly N epochs, the max-epoch reason among those reported.
C5_MaxEpochCap ==
    /\ EpochsRun <= MaxEpochs
    /\ (t_pc = "branch" /\ EpochsRun = MaxEpochs) =>
          /\ stop_training
          /\ "MaxEpochStopping" \in Elems(reasons)
    /\ LoopOver =>
          \/ EpochsRun = MaxEpochs /\ "MaxEpochStopping" \in Elems(reasons)
          \/ EpochsRun < MaxEpochs /\ Elems(reasons) \ {"MaxEpochStopping"} # {}

\* the loop has ended at the cap, on the cap's word alone
C5_Witness ==
    /\ LoopOver
    /\ EpochsRun = MaxEpochs
    /\ reasons = <<"MaxEpochStopping">>

EpochMeasured == t_pc = "instruct" \/ t_pc = "branch" \/ LoopOver

\* C6: if a loss or an accuracy of an epoch is not finite, the loop halts at
\* the end of that epoch: no training pass, validation pass or scheduler step
\* follows, whatever the patience and epoch counters are.
C6_HaltOnNonFinite ==
    /\ []((t_pc = "branch" /\ NonFinite(TheMetrics)) => stop_training)
    /\ [][(EpochMeasured /\ NonFinite(TheMetrics)) =>
             /\ t_pc' \notin {"train_pass", "val_pass"}
             /\ scheduler_steps' = scheduler_steps
             /\ epoch' = epoch
             /\ model' = model
             /\ metrics' = metrics]_vars

\* the loop has ended after a later epoch with a non-finite validation loss,
\* with patience left and below the cap
C6_Witness ==
    /\ LoopOver
    /\ epoch >= 1
    /\ ~IsFinite(TheMetrics.test_loss)
    /\ TheManager.es_wait < Patience
    /\ EpochsRun < MaxEpochs
    /\ Len(scheduler_steps) = epoch

\* the labels of a result of guess
Labels(g) == [i \in 1..Len(g) |-> [j \in 1..Len(g[i]) |-> g[i][j][1]]]

\* C7: once train() has completed, guess on the facade that save followed by
\* load gives returns the same labels in the same order as guess on the
\* trained facade (the parameters save wrote being those the trained facade
\* uses).
C7_SaveLoadSameGuesses ==
    (guesses # Nothing /\ loaded_guesses # Nothing) =>
        Labels(loaded_guesses[1]) = Labels(guesses[1])

(***************************************************************************)
(* SpecIds: the id assignment of train() (lines 175-177) on the vocabulary *)
(* set preprocess_dataset returned.                                        *)
(***************************************************************************)
\* the tokens a returned vocabulary may hold: preprocess_dataset returns the
\* vocab set its caller passed, grown by the training tokens
IdTokens == { UNK, EOS, <<"a">>, <<"b">>, <<"B">>, <<"z">>, <<Comma>> }

InitIds ==
    /\ vocab \in SUBSET IdTokens
    /\ data = <<>> /\ p_args = Nothing /\ p_pc = "returned"
    /\ class_to_i = <<>> /\ i_to_class = <<>>
    /\ train = <<>> /\ test = <<>>
    /\ x_train = <<>> /\ y_train = <<>> /\ x_test = <<>> /\ y_test = <<>>
    /\ p_i = 0
    /\ IdleFolds /\ IdleRuns /\ IdleGuess /\ IdleTrain

\* lines 175-177
BuildIds ==
    /\ DOMAIN word_to_i = {}
    /\ word_to_i' = BuildWordToI(vocab)
    /\ UNCHANGED <<self_i_to_class, model, argsort_ties, questions,
                   max_n_guesses, q_batch, guesses>>
    /\ UNCHANGED <<foldVars, runVars, preVars, trainVars>>

NextIds == BuildIds

SpecIds == InitIds /\ [][NextIds]_vars

IdsBuilt == DOMAIN word_to_i # {}

C11_IdsWithoutReservedStrings ==
    (IdsBuilt /\ UNK \notin vocab /\ EOS \notin vocab) =>
        /\ word_to_i[UNK] = 0
        /\ word_to_i[EOS] = 1
        /\ \A a \in vocab : word_to_i[a] >= 2
        /\ \A a, b \in vocab : StrLess(a, b) => word_to_i[a] < word_to_i[b]

(***************************************************************************)
(* Further claims about preprocess_dataset (SpecPre).                      *)
(***************************************************************************)
\* the sentences of a question that yield at least one token
TokenSentences(q) == { j \in 1..Len(q) : tokenize_question(q[j]) # <<>> }

\* the number of examples the claim gives one question
ExamplesDue(q, a) == IF a.full_question THEN 1 ELSE Cardinality(TokenSentences(q))

\* the same for the first n questions of a partition
RECURSIVE ExamplesDueUpTo(_, _, _)
ExamplesDueUpTo(part, n, a) ==
    IF n = 0 THEN 0
    ELSE ExamplesDueUpTo(part, n - 1, a) + ExamplesDue(part[n].q, a)

InLoops == p_pc \in {"loops", "returned"}
TrainDone == IF p_i < Len(train) THEN p_i ELSE Len(train)
TestDone == IF p_i < Len(train) THEN 0 ELSE p_i - Len(train)

\* C12: in either partition the questions processed so far have emitted, each,
\* as many examples as they have sentences with at least one token (default
\* and run mode) or exactly one (full-question mode), and each partition has
\* as many labels as examples.
C12_ExampleCounts ==
    InLoops =>
        /\ Len(x_train) = ExamplesDueUpTo(train, TrainDone, TheArgs)
        /\ Len(x_test) = ExamplesDueUpTo(test, TestDone, TheArgs)
        /\ Len(y_train) = Len(x_train)
        /\ Len(y_test) = Len(x_test)

\* a call that returned, not in full-question mode, after a training and a
\* test question that each have a sentence without tokens
C12_Witness ==
    /\ PreReturned
    /\ ~TheArgs.full_question
    /\ \E k \in 1..Len(train) : TokenSentences(train[k].q) # 1..Len(train[k].q)
    /\ \E k \in 1..Len(test) : TokenSentences(test[k].q) # 1..Len(test[k].q)

IncompatibleCall == p_pc = "call" /\ TheArgs.full_question /\ TheArgs.create_runs
NothingProcessed ==
    /\ p_i = 0
    /\ train = <<>> /\ test = <<>>
    /\ x_train = <<>> /\ y_train = <<>> /\ x_test = <<>> /\ y_test = <<>>
    /\ vocab = PassedVocab(TheArgs)
    /\ class_to_i = PassedClassToI(TheArgs)
    /\ i_to_class = PassedIToClass(TheArgs)

\* C13: a call with full_question and create_runs both true raises the
\* configuration error whatever the other arguments are, invalid sizes
\* included, and raises it first: the only step of such a call is the raise,
\* and it tokenizes no sentence and leaves the vocab, class_to_i and
\* i_to_class that were passed as they were.
C13_IncompatibleFlagsRaiseFirst ==
    /\ [](IncompatibleCall => ENABLED PreRaiseIncompatible)
    /\ [][IncompatibleCall =>
             /\ p_pc' = "raised_incompatible"
             /\ UNCHANGED <<data, class_to_i, i_to_class, train, test,
                            x_train, y_train, x_test, y_test, vocab, p_i>>]_vars
    /\ [](p_pc = "raised_incompatible" => NothingProcessed)

\* the error raised for a call whose sizes are invalid as well, and that was
\* passed a vocab and label maps
C13_Witness ==
    /\ p_pc = "raised_incompatible"
    /\ TheArgs.train_size + TheArgs.test_size > 10
    /\ TheArgs.vocab # Nothing
    /\ TheArgs.maps # Nothing

PreOver == p_pc \in {"returned", "raised_incompatible", "raised_sizes", "raised_split"}
TrainSizeOne == TheArgs.train_size = 10
EmptyTestNonEmptyTrain ==
    /\ x_test = <<>> /\ y_test = <<>>
    /\ x_train # <<>> /\ y_train # <<>>

\* C14: a call with train_size=1.0 on a non-empty input, in a mode that is
\* valid, returns, and returns an empty test partition and a non-empty
\* training partition.
C14_TrainSizeOne ==
    (PreOver /\ TrainSizeOne /\ data # <<>> /\ p_pc # "raised_incompatible") =>
        /\ PreReturned
        /\ EmptyTestNonEmptyTrain

\* the same for the calls that returned
C14_TrainSizeOneReturned ==
    (PreReturned /\ TrainSizeOne /\ data # <<>>) => EmptyTestNonEmptyTrain

\* what does hold of the calls that returned: the test partition is empty
\* and every question is a training question
C14_TrainSizeOneTestEmpty ==
    (PreReturned /\ TrainSizeOne /\ data # <<>>) =>
        /\ x_test = <<>> /\ y_test = <<>>
        /\ train = data /\ test = <<>>

(***************************************************************************)
(* Claims about batchify (SpecGuess: the batch guess builds).              *)
(***************************************************************************)
\* the id sequence of example i of the batch
TrueIds(i) == make_array(tokenize_question(questions[i]), word_to_i).ids
\* the length of the longest id sequence of the batch
LongestIds ==
    CHOOSE m \in { Len(TrueIds(i)) : i \in 1..Len(questions) } :
        \A i \in 1..Len(questions) : Len(TrueIds(i)) <= m

\* C15: for a non-empty batch, batchify returns a matrix with one row per
\* example, every row as wide as the longest id sequence of the batch; row i
\* starts with the ids of example i, holds 0 at every position from the
\* length of example i on, and the length vector holds the length of each
\* id sequence in batch order.
C15_BatchifyPadding ==
    q_batch # Nothing =>
        /\ Len(TheBatch.text) = Len(questions)
        /\ Len(TheBatch.len) = Len(questions)
        /\ \A i \in 1..Len(questions) :
              /\ Len(TheBatch.text[i]) = LongestIds
              /\ TheBatch.len[i] = Len(TrueIds(i))
              /\ \A j \in 1..LongestIds :
                    TheBatch.text[i][j] =
                        IF j <= Len(TrueIds(i)) THEN TrueIds(i)[j] ELSE 0

\* a batch of two id sequences of different lengths, the shorter one padded
C15_Witness ==
    /\ q_batch # Nothing
    /\ \E i, k \in 1..Len(questions) :
          /\ TheBatch.len[i] < TheBatch.len[k]
          /\ Len(TheBatch.text[i]) = TheBatch.len[k]
          /\ TheBatch.text[i][TheBatch.len[k]] = 0

(***************************************************************************)
(* Claims about the label maps (SpecPre).                                  *)
(***************************************************************************)
MapsDerived == InLoops /\ TheArgs.maps = Nothing
InputLabels == { data[k].ans : k \in 1..Len(data) }
\* i_to_class[i] for a Python index i
IToClassAt(i) == i_to_class[i + 1]

\* the labels the claim gives the examples of the first n questions of a
\* partition: class_to_i of the question's label, once per example
RECURSIVE LabelsDueUpTo(_, _, _)
LabelsDueUpTo(part, n, a) ==
    IF n = 0 THEN <<>>
    ELSE LabelsDueUpTo(part, n - 1, a)
         \o [e \in 1..ExamplesDue(part[n].q, a) |-> class_to_i[part[n].ans]]

\* C16: when the call derives the label maps, class_to_i and i_to_class are
\* inverse to each other over the indices 0..n-1, n being the number of
\* distinct labels of the whole input, and every entry of y_train and y_test
\* is class_to_i of the label of the question its example came from.
C16_LabelMapsInverse ==
    MapsDerived =>
        LET n == Cardinality(InputLabels)
        IN /\ DOMAIN class_to_i = InputLabels
           /\ Len(i_to_class) = n
           /\ \A c \in InputLabels :
                 /\ class_to_i[c] \in 0..(n - 1)
                 /\ IToClassAt(class_to_i[c]) = c
           /\ \A i \in 0..(n - 1) : class_to_i[IToClassAt(i)] = i
           /\ y_train = LabelsDueUpTo(train, TrainDone, TheArgs)
           /\ y_test = LabelsDueUpTo(test, TestDone, TheArgs)

\* a call that derived the maps of two labels and returned a training label
\* and a different test label
C16_Witness ==
    /\ PreReturned
    /\ TheArgs.maps = Nothing
    /\ Cardinality(InputLabels) = 2
    /\ \E j \in 1..Len(y_train) : \E k \in 1..Len(y_test) : y_train[j] # y_test[k]

(***************************************************************************)
(* Claims about the checkpoint (SpecTrain).                                *)
(***************************************************************************)
\* the validation pass of the current epoch is over
ValMeasured == t_pc \in {"instruct", "branch", "done"}
\* instruct has run for the current epoch
Instructed == t_pc \in {"branch", "done"}
\* the validation accuracies of the epochs before the current one: each was
\* handed to scheduler.step when its epoch went on
EarlierAccs == Elems(scheduler_steps)
\* the current epoch's validation accuracy is the best seen so far
EpochImproved ==
    /\ IsFinite(TheMetrics.test_acc)
    /\ \A acc \in EarlierAccs : TheMetrics.test_acc > acc
CheckpointCalls == { k \in 1..Len(TheManager.calls) :
                        TheManager.calls[k].name = "ModelCheckpoint" }

RunMode == InLoops /\ TheArgs.create_runs

\* the tokens of sentences 1..j of a question, in sentence order
RECURSIVE TokensUpTo(_, _)
TokensUpTo(q, j) ==
    IF j = 0 THEN <<>> ELSE TokensUpTo(q, j - 1) \o tokenize_question(q[j])

\* the examples the claim gives a question, from sentence j on
RECURSIVE RunsDueFrom(_, _)
RunsDueFrom(q, j) ==
    IF j > Len(q) THEN <<>>
    ELSE (IF tokenize_question(q[j]) # <<>> THEN << TokensUpTo(q, j) >> ELSE <<>>)
         \o RunsDueFrom(q, j + 1)

\* the same for the first n questions of a partition
RECURSIVE RunsDueUpTo(_, _)
RunsDueUpTo(part, n) ==
    IF n = 0 THEN <<>> ELSE RunsDueUpTo(part, n - 1) \o RunsDueFrom(part[n].q, 1)

IsPrefix(u, v) == Len(u) <= Len(v) /\ SubSeq(v, 1, Len(u)) = u

\* successive examples of one question grow, each starting with the one before
Growing(examples) ==
    \A k \in 1..(Len(examples) - 1) :
        /\ Len(examples[k]) < Len(examples[k + 1])
        /\ IsPrefix(examples[k], examples[k + 1])

\* C18: in run mode the k-th example of a question is the concatenation of
\* the tokens of its sentences up to the k-th sentence that has a token, with
\* the label class_to_i of the question's page; the examples of one question
\* grow strictly, each starting with the one before; an example once emitted
\* is not changed later; and an example holds tokens of its own question
\* only.
C18_RunsCumulative ==
    /\ [](RunMode =>
            /\ x_train = RunsDueUpTo(train, TrainDone)
            /\ x_test = RunsDueUpTo(test, TestDone)
            /\ y_train = LabelsDueUpTo(train, TrainDone, TheArgs)
            /\ y_test = LabelsDueUpTo(test, TestDone, TheArgs)
            /\ \A k \in 1..Len(train) : Growing(RunsDueFrom(train[k].q, 1))
            /\ \A k \in 1..Len(test) : Growing(RunsDueFrom(test[k].q, 1)))
    /\ [][RunMode => (IsPrefix(x_train, x_train') /\ IsPrefix(x_test, x_test'))]_vars

\* a run-mode call that returned after two training questions, the first
\* with two sentences that have tokens
C18_Witness ==
    /\ PreReturned
    /\ TheArgs.create_runs
    /\ Len(train) = 2
    /\ Cardinality(TokenSentences(train[1].q)) = 2
    /\ TokenSentences(train[2].q) # {}
    /\ Len(x_train) >= 3

(***************************************************************************)
(* Claims about clean_question (SpecPre: the sentences the loops clean).   *)
(***************************************************************************)
\* the sentences of the questions processed so far
CleanedSentences ==
    UNION { Elems(train[k].q) : k \in 1..TrainDone }
        \cup UNION { Elems(test[k].q) : k \in 1..TestDone }

\* the text the claim gives a sentence: the possessive rewrite of the
\* filler-and-punctuation-stripped text
CleanedAsClaimed(sentence) == ApostropheSub(RegexPatternSub(PyStrip(PyLower(sentence))))

\* C19: for every string, clean_question returns the possessive rewrite of
\* the filler-and-punctuation-stripped text, so that no punctuation character
\* is left in what it returns.
C19_CleanStripsPunctuation ==
    InLoops =>
        \A sentence \in CleanedSentences :
            /\ clean_question(sentence) = CleanedAsClaimed(sentence)
            /\ Elems(clean_question(sentence)) \cap Punctuation = {}

\* what clean_question does return: the possessive rewrite of the lowered,
\* stripped text, punctuation kept
C19_CleanKeepsPunctuation ==
    InLoops =>
        \A sentence \in CleanedSentences :
            /\ clean_question(sentence) = ApostropheSub(PyStrip(PyLower(sentence)))
            /\ (Comma \in Elems(sentence)) => (Comma \in Elems(clean_question(sentence)))
====
